---- MODULE Spec2Model ----
(***************************************************************************)
(* KM Master discrepancy detection: the data-preprocessing core.           *)
(*                                                                         *)
(*   Code reconciliation  convert_to_op_code  (src/src/data_preprocessing) *)
(*                        op_code             (src/src/data_cleaning, the  *)
(*                                             earlier revision)           *)
(*   Notation repair      correct_scientific_notation                      *)
(*                                            (src/src/data_preprocessing) *)
(*                                                                         *)
(* A DataFrame is a sequence of rows, a row a record of its columns.  The  *)
(* pandas operations used by the code (left merge, concat, drop_duplicates,*)
(* dropna, unique, str.contains, str.replace, dict lookup) are operators.  *)
(* Each function is a small sequential process: pc is its position.        *)
(***************************************************************************)
EXTENDS Integers, Sequences, FiniteSets, TLC

VARIABLES
  \* ---- code reconciliation
  df,                  \* the caller's table: rows [Trip, OP]
  df_before,           \* the caller's table when the call began
  sheet_op,            \* worksheet "Master Kode OP": records [OperatingPoint, KodeOP]
  fn,                  \* which revision is called
  method,              \* the method argument
  pc,                  \* position inside the call
  df_master_op,        \* local: the loaded lookup
  df_merged,           \* local: after line 80
  result,              \* how the call ended
  sheets_loader_calls, \* times the spreadsheet gateway was contacted
  sheets_loader_failures, \* times it failed (authentication, network)
  merges,              \* pd.merge calls performed
  \* ---- notation repair
  df_toko,             \* the caller's table, changed in place: rows [OP, KM, Toko]
  df_toko_dtypes,      \* the dtype of each column of the caller's table
  csn_fn,              \* which revision is called
  sheet_toko,          \* worksheet "Master Saintifik Toko"
  csn_pc,              \* position inside the call
  csn_prev,            \* how the previous call on this table ended
  csn_prev_subs,       \* cells the previous call changed
  csn_before,          \* the caller's table when the call began
  df_master,           \* local: the loaded lookup
  df_master_dtypes,    \* local: the dtypes of its columns
  csn_variant,         \* the mapping the call built: "comma", "period", "none"
  csn_subs,            \* cells the correction pass of the call changed
  csn_result,          \* how the call ended
  csn_log,             \* the sample written by logger.warning (line 223-225)
  \* ---- filter_iqr
  iqr_df,              \* the caller's table: the values of the filtered column
  iqr_before,          \* the caller's table when the call began
  iqr_pc,
  iqr_result,          \* what the call returned and logged
  \* ---- sheets_updater
  su_sheet,            \* the cells of the worksheet: rows of cells
  su_before,           \* the cells it held when the call began
  su_df,               \* the table to write: [columns, values]
  su_pc,
  su_result,
  su_attempts,         \* times the spreadsheet service was contacted
  \* ---- mask_numeric_value
  mask_value,          \* the value argument
  mask_hide,           \* the hide_values argument
  mask_pc,
  mask_result,
  \* ---- DataTracker
  dt_start_rows,       \* self.start_rows
  dt_start_time,       \* self.start_time
  dt_steps,            \* self.steps
  dt_rows,             \* self.rows
  dt_timestamps,       \* self.timestamps
  dt_clock,            \* time.time()
  dt_track_calls,      \* track calls made so far
  dt_first,            \* the count of the table of the first track call
  dt_latest,           \* the count of the table of the latest track call
  dt_last              \* what the latest call did and returned

ctoc_vars == <<df, df_before, sheet_op, fn, method, pc, df_master_op, df_merged, result,
               sheets_loader_calls, sheets_loader_failures, merges>>

csn_vars == <<df_toko, df_toko_dtypes, csn_fn, sheet_toko, csn_pc, csn_prev, csn_prev_subs,
              csn_before, df_master, df_master_dtypes, csn_variant, csn_subs, csn_result,
              csn_log>>

iqr_vars == <<iqr_df, iqr_before, iqr_pc, iqr_result>>

su_vars == <<su_sheet, su_before, su_df, su_pc, su_result, su_attempts>>

mask_vars == <<mask_value, mask_hide, mask_pc, mask_result>>

dt_vars == <<dt_start_rows, dt_start_time, dt_steps, dt_rows, dt_timestamps, dt_clock,
             dt_track_calls, dt_first, dt_latest, dt_last>>

\* the components other than the reconciliation and the repair
rest_vars == <<iqr_vars, su_vars, mask_vars, dt_vars>>

vars == <<ctoc_vars, csn_vars, rest_vars>>

-----------------------------------------------------------------------------
(* Bounds of the model *)

MaxRows == 2
MaxMaster == 2
MaxTokoRows == 2
MaxTokoMaster == 2

-----------------------------------------------------------------------------
(* Values *)

\* pandas' missing value (NaN / None) in an object column
NaN == "NaN"

\* values of the caller's OP column: a name, a code, a missing cell
OPValues == {"Point Balikpapan Reguler", "PBPNR", NaN}
\* the other columns of a row, taken together
TripValues == {"T1", "T2"}
\* the lookup sheet: names (one of them spelled like a code) and codes
MasterNames == {"Point Balikpapan Reguler", "Depo Samarinda", "PBPNR"}
MasterCodes == {"PBPNR", "PSMDR"}

Methods == {"complete", "partial", "full"}
Revisions == {"convert_to_op_code", "op_code"}

SeqsUpTo(S, n) == UNION {[1..k -> S] : k \in 0..n}

DfRows == [Trip : TripValues, OP : OPValues]
MasterRows == [OperatingPoint : MasterNames, KodeOP : MasterCodes]

-----------------------------------------------------------------------------
(* pandas helpers *)

RECURSIVE Flatten(_)
Flatten(ss) == IF ss = <<>> THEN <<>> ELSE Head(ss) \o Flatten(Tail(ss))

\* pd.merge(left, right, left_on='OP', right_on=<on>, how='left'):
\* every left row, in order, once per right row with an equal key, in the
\* right's order; once with missing right columns when there is none.
LeftMerge(left, right, on) ==
  Flatten([i \in 1..Len(left) |->
    LET l  == left[i]
        ms == SelectSeq(right, LAMBDA m : m[on] = l.OP)
    IN IF ms = <<>>
       THEN << [Trip |-> l.Trip, OP |-> l.OP, OperatingPoint |-> NaN, KodeOP |-> NaN] >>
       ELSE [j \in 1..Len(ms) |->
              [Trip |-> l.Trip, OP |-> l.OP,
               OperatingPoint |-> ms[j].OperatingPoint, KodeOP |-> ms[j].KodeOP]]])

\* .drop(columns=[right_on_0, right_on_1])
DropMaster(rows) == [i \in 1..Len(rows) |-> [Trip |-> rows[i].Trip, OP |-> rows[i].OP]]

\* a bug of the kind the line invites: the code column is dropped and the
\* caller's own column kept
DropRename_KeepName(rows) == [i \in 1..Len(rows) |-> [Trip |-> rows[i].Trip, OP |-> rows[i].OP]]

\* .drop(columns=[right_on_0, left_on]).rename(columns={right_on_1: left_on})
DropRename(rows) == [i \in 1..Len(rows) |-> [Trip |-> rows[i].Trip, OP |-> rows[i].KodeOP]]

\* a bug of the kind the line invites: the duplicates are left in
DropDuplicates_None(rows) == rows

\* .drop_duplicates().reset_index(drop=True): the first of equal rows is kept
RECURSIVE DropDuplicates(_)
DropDuplicates(rows) ==
  IF rows = <<>> THEN <<>>
  ELSE LET init == DropDuplicates(SubSeq(rows, 1, Len(rows) - 1))
           last == rows[Len(rows)]
       IN IF \E i \in 1..Len(init) : init[i] = last THEN init ELSE Append(init, last)

\* Series.unique(): the distinct values in order of first appearance
RECURSIVE Unique(_)
Unique(s) ==
  IF s = <<>> THEN <<>>
  ELSE LET init == Unique(SubSeq(s, 1, Len(s) - 1))
           last == s[Len(s)]
       IN IF \E i \in 1..Len(init) : init[i] = last THEN init ELSE Append(init, last)

Column(rows, c) == [i \in 1..Len(rows) |-> rows[i][c]]

IsNa(rows) == SelectSeq(rows, LAMBDA r : r.OP = NaN)
DropNa(rows) == SelectSeq(rows, LAMBDA r : r.OP # NaN)

-----------------------------------------------------------------------------
(* convert_to_op_code / op_code *)

\* a bug of the kind the lines invite: the rows the name join leaves without
\* a code are not joined again on the code
MergedTable_NoFallback(d, master) ==
  DropDuplicates(DropRename(LeftMerge(d, master, "OperatingPoint")))

\* lines 66-80: name join, code fallback join, rename, drop duplicates
MergedTable(d, master) ==
  LET df_merged_0 == LeftMerge(d, master, "OperatingPoint")
      unmatched   == SelectSeq(df_merged_0, LAMBDA r : r.KodeOP = NaN)
      matched     == SelectSeq(df_merged_0, LAMBDA r : r.KodeOP # NaN)
      unmatched_merged == LeftMerge(DropMaster(unmatched), master, "KodeOP")
  IN DropDuplicates(
       IF unmatched # <<>>
       THEN DropRename(matched \o unmatched_merged)
       ELSE DropRename(df_merged_0))

\* pd.merge calls made by lines 66-78
MergeCount(d, master) ==
  IF SelectSeq(LeftMerge(d, master, "OperatingPoint"), LAMBDA r : r.KodeOP = NaN) # <<>>
  THEN 2 ELSE 1

NoResult == [kind |-> "none", error |-> "", table |-> <<>>, unmapped_ops |-> <<>>,
             rows_dropped |-> 0]

Returned(t, dropped) ==
  [kind |-> "returned", error |-> "", table |-> t, unmapped_ops |-> <<>>,
   rows_dropped |-> dropped]

Raised(e, ops) ==
  [kind |-> "raised", error |-> e, table |-> <<>>, unmapped_ops |-> ops, rows_dropped |-> 0]

\* op_code prints the values and hands back the caller's table
Printed(t, ops) ==
  [kind |-> "returned", error |-> "", table |-> t, unmapped_ops |-> ops, rows_dropped |-> 0]

UnmappedError == "ValueError: unmapped OP(s) found"
MethodError == "ValueError: method must be 'complete' or 'partial'"

\* a bug of the kind the branch invites: the unmapped rows are reported but
\* the merged table is handed back all the same
Complete_NoRaise(merged) == Returned(merged, 0)

\* convert_to_op_code, lines 83-97: the values reported are those of the
\* renamed column of the rows that have no code
Complete(merged) ==
  LET df_na == IsNa(merged)
      unmapped_ops == Unique(Column(df_na, "OP"))
  IN IF df_na = <<>> THEN Returned(merged, 0)
     ELSE Raised(UnmappedError, unmapped_ops)

\* a bug of the kind the branch invites: the rows are counted, not dropped
Partial_KeepAll(merged) ==
  IF Len(merged) = 0 THEN Raised("ZeroDivisionError", <<>>)
  ELSE Returned(merged, Len(IsNa(merged)))

\* convert_to_op_code, lines 99-106: the log line divides by rows_before
Partial(merged) ==
  LET rows_before == Len(merged)
      kept == DropNa(merged)
      rows_dropped == rows_before - Len(kept)
  IN IF rows_before = 0
     THEN Raised("ZeroDivisionError", <<>>)
     ELSE Returned(kept, rows_dropped)

\* op_code, lines 48-61: prints the values and returns the caller's table
Complete_op_code(d, merged) ==
  LET df_na == IsNa(merged)
  IN IF df_na = <<>> THEN Returned(merged, 0)
     ELSE Printed(d, Unique(Column(df_na, "OP")))

\* op_code, lines 64-67: no log line
Partial_op_code(merged) ==
  Returned(DropNa(merged), Len(merged) - Len(DropNa(merged)))

\* lines 83-109 (op_code: 48-70): the method is looked at last
Policy(f, m, d, merged) ==
  IF m = "complete"
  THEN IF f = "convert_to_op_code" THEN Complete(merged) ELSE Complete_op_code(d, merged)
  ELSE IF m = "partial"
  THEN IF f = "convert_to_op_code" THEN Partial(merged) ELSE Partial_op_code(merged)
  ELSE Raised(MethodError, <<>>)

CTOC_Init ==
  /\ df \in SeqsUpTo(DfRows, MaxRows)
  /\ df_before = <<>>
  /\ sheet_op \in SeqsUpTo(MasterRows, MaxMaster)
  /\ fn = "convert_to_op_code"
  /\ method = "complete"
  /\ pc = "idle"
  /\ df_master_op = <<>>
  /\ df_merged = <<>>
  /\ result = NoResult
  /\ sheets_loader_calls = 0
  /\ sheets_loader_failures = 0
  /\ merges = 0

\* the caller invokes one of the revisions with a method
CTOC_Call(f, m) ==
  /\ pc = "idle"
  /\ UNCHANGED <<csn_vars, rest_vars>>
  /\ fn' = f
  /\ method' = m
  /\ pc' = "load"
  /\ df_before' = df
  /\ UNCHANGED <<df, sheet_op, df_master_op, df_merged, result, sheets_loader_calls,
                  sheets_loader_failures, merges>>

\* a faulty variant: a call that tries the gateway again when it fails
CTOC_Load_Retry(ok) ==
  /\ pc = "load"
  /\ sheets_loader_calls < 3
  /\ UNCHANGED <<csn_vars, rest_vars>>
  /\ sheets_loader_calls' = sheets_loader_calls + 1
  /\ sheets_loader_failures' = IF ok THEN sheets_loader_failures ELSE sheets_loader_failures + 1
  /\ IF ok /\ sheet_op # <<>>
     THEN df_master_op' = sheet_op /\ pc' = "merge"
     ELSE UNCHANGED <<df_master_op, pc>>
  /\ UNCHANGED <<df, df_before, sheet_op, fn, method, df_merged, result, merges>>

\* lines 58-61: the gateway is contacted; authentication or the network may
\* fail; a sheet with a header only gives a frame without columns, on which
\* the column selection (the join, in op_code) raises KeyError
CTOC_Load(ok) ==
  /\ pc = "load"
  /\ UNCHANGED <<csn_vars, rest_vars>>
  /\ sheets_loader_calls' = sheets_loader_calls + 1
  /\ sheets_loader_failures' = IF ok THEN sheets_loader_failures ELSE sheets_loader_failures + 1
  /\ IF ~ok
     THEN /\ result' = Raised("GatewayError", <<>>)
          /\ pc' = "raised"
          /\ UNCHANGED df_master_op
     ELSE IF sheet_op = <<>>
     THEN /\ result' = Raised("KeyError", <<>>)
          /\ pc' = "raised"
          /\ UNCHANGED df_master_op
     ELSE /\ df_master_op' = sheet_op
          /\ pc' = "merge"
          /\ UNCHANGED result
  /\ UNCHANGED <<df, df_before, sheet_op, fn, method, df_merged, merges>>

\* a faulty variant of lines 66-80: the merged table is written over the
\* caller's table
CTOC_Merge_InPlace ==
  /\ pc = "merge"
  /\ UNCHANGED <<csn_vars, rest_vars>>
  /\ df_merged' = MergedTable(df, df_master_op)
  /\ df' = df_merged'
  /\ merges' = merges + MergeCount(df, df_master_op)
  /\ pc' = "policy"
  /\ UNCHANGED <<df_before, sheet_op, fn, method, df_master_op, result, sheets_loader_calls,
                  sheets_loader_failures>>

\* lines 66-80: pd.merge, concat, drop, rename and drop_duplicates each give
\* a new frame; the caller's frame is read only
CTOC_Merge ==
  /\ pc = "merge"
  /\ UNCHANGED <<csn_vars, rest_vars>>
  /\ df_merged' = MergedTable(df, df_master_op)
  /\ merges' = merges + MergeCount(df, df_master_op)
  /\ pc' = "policy"
  /\ UNCHANGED <<df, df_before, sheet_op, fn, method, df_master_op, result, sheets_loader_calls,
                  sheets_loader_failures>>

\* lines 83-109
CTOC_Policy ==
  /\ pc = "policy"
  /\ UNCHANGED <<csn_vars, rest_vars>>
  /\ result' = Policy(fn, method, df, df_merged)
  /\ pc' = result'.kind
  /\ UNCHANGED <<df, df_before, sheet_op, fn, method, df_master_op, df_merged, sheets_loader_calls,
                  sheets_loader_failures, merges>>

CTOC_Next ==
  \/ \E f \in Revisions, m \in Methods : CTOC_Call(f, m)
  \/ \E ok \in BOOLEAN : CTOC_Load(ok)
  \/ CTOC_Merge
  \/ CTOC_Policy


-----------------------------------------------------------------------------
(* correct_scientific_notation / change_scientific_notation *)

CsnRevisions == {"correct_scientific_notation", "change_scientific_notation"}

\* store codes are strings: sequences of characters
T_comma  == << "8", ",", "0" >>    \* 8,00E+34
T_period == << "8", ".", "0" >>    \* 8.00E+34
T_plain  == << "8", "E" >>         \* 8E34

TokoValues  == {T_comma, T_period, T_plain}      \* column Toko of the table
SaintifikValues == {T_comma, T_period, T_plain}  \* column Toko Saintifik
BenarValues == {T_plain, T_period}               \* column Toko Benar
OpCodes == {"A", "B"}          \* column OP of the table
MasterOpCodes == {"A"}         \* column Kode OP: the sheet has entries for A only
KmValues == {"K"}

\* a column is textual when pandas gives it dtype 'object'
Dtypes == {"object", "int64"}

\* the cells of a column that is not textual hold numbers, not strings
NumberCell == "8.0"
T_number == << "8.0" >>

\* df_column_0 .. df_column_3: the raw token and the target are the same
\* column (config.CSN_DF_TOKO_BENAR)
TokoColumnList == << "OP", "KM", "Toko", "Toko" >>
\* master_column_0 .. master_column_3
MasterColumnList == << "KodeOP", "KM", "TokoSaintifik", "TokoBenar" >>

TokoDtypes == [OP : Dtypes, KM : Dtypes, Toko : Dtypes]
AllObject == [OP |-> "object", KM |-> "object", Toko |-> "object"]
MasterAllObject ==
  [KodeOP |-> "object", KM |-> "object", TokoSaintifik |-> "object", TokoBenar |-> "object"]
MasterAllNumbers ==
  [KodeOP |-> "int64", KM |-> "int64", TokoSaintifik |-> "int64", TokoBenar |-> "int64"]
\* what the gateway hands back: text in every column, numbers in the last
\* one, or numbers in all
MasterDtypes ==
  {MasterAllObject, [MasterAllObject EXCEPT !.TokoBenar = "int64"], MasterAllNumbers}

TokoRowsOf(dt) ==
  [OP   : IF dt.OP = "object" THEN OpCodes ELSE {NumberCell},
   KM   : IF dt.KM = "object" THEN KmValues ELSE {NumberCell},
   Toko : IF dt.Toko = "object" THEN TokoValues ELSE {T_number}]

TokoRows == TokoRowsOf(AllObject)
TokoMasterRows ==
  [KodeOP : MasterOpCodes, KM : KmValues, TokoSaintifik : SaintifikValues, TokoBenar : BenarValues]

\* a faulty variant of the loops of lines 163 and 179: no column is looked at
TypeCheck_Skip(cols, dtypes) == 0

\* lines 163-165 and 179-181: the first column, in the order of the list,
\* whose dtype is not 'object'; 0 when there is none
TypeCheck(cols, dtypes) ==
  LET bad == {i \in 1..Len(cols) : dtypes[cols[i]] # "object"}
  IN IF bad = {} THEN 0 ELSE CHOOSE i \in bad : \A j \in bad : i <= j

\* str.contains(r'\,') / str.contains(r'\.')
Contains(tok, ch) == \E i \in 1..Len(tok) : tok[i] = ch

\* str.replace(a, b)
Replace(tok, a, b) == [i \in 1..Len(tok) |-> IF tok[i] = a THEN b ELSE tok[i]]

\* lines 184-187
RowsComma(t) == Len(SelectSeq(t, LAMBDA r : Contains(r.Toko, ",")))
RowsPeriod(t) == Len(SelectSeq(t, LAMBDA r : Contains(r.Toko, ".")))

\* a bug of the kind the branch invites: the two tests in the other order
Variant_PeriodFirst(t) ==
  IF RowsPeriod(t) > 0 THEN "period" ELSE IF RowsComma(t) > 0 THEN "comma" ELSE "none"

\* lines 193 and 203: which mapping is built
Variant(t) ==
  IF RowsComma(t) > 0 THEN "comma" ELSE IF RowsPeriod(t) > 0 THEN "period" ELSE "none"

\* a faulty variant of lines 195 and 205: the lookup's token is taken as it
\* is written, its delimiter not brought to that of the table
MappingGet_NoReplace(master, a, b, key, default) ==
  LET hits == {k \in 1..Len(master) :
                 << master[k].KodeOP, master[k].KM, master[k].TokoSaintifik >> = key}
  IN IF hits = {} THEN default
     ELSE master[CHOOSE k \in hits : \A h \in hits : h <= k].TokoBenar

\* lines 194-197 and 204-207: the dict comprehension; of two lookup rows with
\* the same key the later one stays.  mapping.get(key, default).
MappingGet(master, a, b, key, default) ==
  LET hits == {k \in 1..Len(master) :
                 << master[k].KodeOP, master[k].KM, Replace(master[k].TokoSaintifik, a, b) >> = key}
  IN IF hits = {} THEN default
     ELSE master[CHOOSE k \in hits : \A h \in hits : h <= k].TokoBenar

\* lines 198-201 and 208-211: df.apply over every row; the raw token and the
\* target are the same column (config.CSN_DF_TOKO_BENAR)
ApplyMapping(t, master, a, b) ==
  [i \in 1..Len(t) |->
     [t[i] EXCEPT !.Toko = MappingGet(master, a, b, << t[i].OP, t[i].KM, t[i].Toko >>, t[i].Toko)]]

\* a faulty variant of lines 193-211: without the two tests a mapping is
\* built whatever the table holds
Corrected_AlwaysMap(t, master) ==
  IF RowsComma(t) > 0 THEN ApplyMapping(t, master, ".", ",")
  ELSE ApplyMapping(t, master, ",", ".")

\* lines 193-211
Corrected(t, master) ==
  IF Variant(t) = "comma" THEN ApplyMapping(t, master, ".", ",")
  ELSE IF Variant(t) = "period" THEN ApplyMapping(t, master, ",", ".")
  ELSE t

\* line 214
NotScientificList(master) ==
  {master[k].TokoBenar : k \in {k \in 1..Len(master) : Contains(master[k].TokoBenar, ".")}}

\* a faulty variant of lines 217-218: only the period is looked for
Residual_PeriodOnly(t, master) ==
  SelectSeq(t, LAMBDA r : Contains(r.Toko, ".") /\ r.Toko \notin NotScientificList(master))

\* a faulty variant of line 218: the canonical values that hold a period are
\* not exempt
Residual_NoExempt(t, master) ==
  SelectSeq(t, LAMBDA r : Contains(r.Toko, ",") \/ Contains(r.Toko, "."))

\* lines 217-218
Residual(t, master) ==
  SelectSeq(t, LAMBDA r :
     (Contains(r.Toko, ",") \/ Contains(r.Toko, ".")) /\ r.Toko \notin NotScientificList(master))

\* line 220: .head(5)
SampleSize == 5
SampleCommaPeriod(t, master) ==
  LET values == [i \in 1..Len(Residual(t, master)) |-> Residual(t, master)[i].Toko]
  IN SubSeq(values, 1, IF Len(values) < SampleSize THEN Len(values) ELSE SampleSize)

Changed(old, new) == Cardinality({i \in 1..Len(old) : old[i] # new[i]})

\* how a call ended.  rows_comma_period and sample are what the message of
\* the ValueError carries, column and dtype what the TypeError names.
CsnNoResult ==
  [kind |-> "none", error |-> "", rows_comma_period |-> 0, sample |-> <<>>,
   column |-> "", dtype |-> ""]
CsnReturned ==
  [kind |-> "returned", error |-> "", rows_comma_period |-> 0, sample |-> <<>>,
   column |-> "", dtype |-> ""]
\* lines 226-228: the message holds the count, the sheet's name and the head
\* of the URL, and no value of the table
CsnRaised(e, n) ==
  [kind |-> "raised", error |-> e, rows_comma_period |-> n, sample |-> <<>>,
   column |-> "", dtype |-> ""]
\* lines 165 and 181
CsnTypeError(e, col, dt) ==
  [kind |-> "raised", error |-> e, rows_comma_period |-> 0, sample |-> <<>>,
   column |-> col, dtype |-> dt]

InvalidStoreCodes == "ValueError: invalid store codes contain '.' or ','"
ColumnTypeError == "TypeError: Column must be string type"
MasterColumnTypeError == "TypeError: Master column must be string type"

CSN_Start ==
  /\ csn_fn = "correct_scientific_notation"
  /\ csn_pc = "idle"
  /\ csn_prev = "none"
  /\ csn_prev_subs = 0
  /\ csn_before = <<>>
  /\ df_master = <<>>
  /\ df_master_dtypes = MasterAllObject
  /\ csn_variant = "none"
  /\ csn_subs = 0
  /\ csn_result = CsnNoResult
  /\ csn_log = <<>>

CSN_Init ==
  /\ df_toko_dtypes \in TokoDtypes
  /\ df_toko \in SeqsUpTo(TokoRowsOf(df_toko_dtypes), MaxTokoRows)
  /\ sheet_toko \in SeqsUpTo(TokoMasterRows, MaxTokoMaster)
  /\ CSN_Start

\* the caller passes its table to one of the revisions; after a call of the
\* current revision has gone through its correction pass the caller may call
\* it again (a call that failed before the pass left everything as it was).
\* Lines 162-165: the dtypes of the table's columns are looked at first.
CSN_Call(f) ==
  /\ \/ csn_pc = "idle"
     \/ /\ csn_pc = "returned" \/ (csn_pc = "raised" /\ csn_result.error = InvalidStoreCodes)
        /\ csn_fn = "correct_scientific_notation"
        /\ f = csn_fn
  /\ csn_fn' = f
  /\ csn_prev' = IF csn_pc = "idle" THEN "none" ELSE csn_pc
  /\ csn_prev_subs' = csn_subs
  /\ csn_before' = df_toko
  /\ csn_variant' = "none"
  /\ csn_subs' = 0
  /\ csn_log' = <<>>
  /\ df_master_dtypes' = MasterAllObject
  /\ LET bad == TypeCheck(TokoColumnList, df_toko_dtypes)
     IN IF bad = 0
        THEN /\ csn_pc' = "load"
             /\ csn_result' = CsnNoResult
        ELSE /\ csn_pc' = "raised"
             /\ csn_result' = CsnTypeError(ColumnTypeError, TokoColumnList[bad],
                                           df_toko_dtypes[TokoColumnList[bad]])
  /\ UNCHANGED <<df_toko, df_toko_dtypes, sheet_toko, df_master>>
  /\ UNCHANGED <<ctoc_vars, rest_vars>>

\* lines 168-181: the gateway is contacted; authentication or the network
\* may fail; the dtypes of the loaded columns are looked at
CSN_Load(ok, dtypes) ==
  /\ csn_pc = "load"
  /\ IF ~ok
     THEN /\ csn_result' = CsnRaised("GatewayError", 0)
          /\ csn_pc' = "raised"
          /\ UNCHANGED <<df_master, df_master_dtypes>>
     ELSE LET bad == TypeCheck(MasterColumnList, dtypes)
          IN /\ df_master' = sheet_toko
             /\ df_master_dtypes' = dtypes
             /\ IF bad = 0
                THEN /\ csn_pc' = "correct"
                     /\ UNCHANGED csn_result
                ELSE /\ csn_pc' = "raised"
                     /\ csn_result' = CsnTypeError(MasterColumnTypeError, MasterColumnList[bad],
                                                   dtypes[MasterColumnList[bad]])
  /\ UNCHANGED <<df_toko, df_toko_dtypes, csn_fn, sheet_toko, csn_prev, csn_prev_subs, csn_before,
                  csn_variant, csn_subs, csn_log>>
  /\ UNCHANGED <<ctoc_vars, rest_vars>>

\* lines 183-211: the column of the caller's table is assigned in place
CSN_Correct ==
  /\ csn_pc = "correct"
  /\ csn_variant' = Variant(df_toko)
  /\ df_toko' = Corrected(df_toko, df_master)
  /\ csn_subs' = Changed(df_toko, df_toko')
  /\ csn_pc' = "validate"
  /\ UNCHANGED <<df_toko_dtypes, csn_fn, sheet_toko, csn_prev, csn_prev_subs, csn_before,
                  df_master, df_master_dtypes, csn_result, csn_log>>
  /\ UNCHANGED <<ctoc_vars, rest_vars>>

\* a faulty variant of lines 222-228: the substitutions of the pass are taken
\* back before the error is raised
CSN_Validate_Rollback ==
  /\ csn_pc = "validate"
  /\ LET rows_comma_period == Len(Residual(df_toko, df_master))
     IN IF rows_comma_period > 0 /\ csn_fn = "correct_scientific_notation"
        THEN /\ csn_log' = SampleCommaPeriod(df_toko, df_master)
             /\ csn_result' = CsnRaised(InvalidStoreCodes, rows_comma_period)
             /\ csn_pc' = "raised"
             /\ df_toko' = csn_before
        ELSE /\ csn_log' = <<>>
             /\ csn_result' = CsnReturned
             /\ csn_pc' = "returned"
             /\ UNCHANGED df_toko
  /\ UNCHANGED <<df_toko_dtypes, csn_fn, sheet_toko, csn_prev, csn_prev_subs, csn_before,
                  df_master, df_master_dtypes, csn_variant, csn_subs>>
  /\ UNCHANGED <<ctoc_vars, rest_vars>>

\* lines 213-233; change_scientific_notation (data_cleaning.py 144-161)
\* prints the residual rows and returns the table all the same
CSN_Validate ==
  /\ csn_pc = "validate"
  /\ LET rows_comma_period == Len(Residual(df_toko, df_master))
     IN IF rows_comma_period > 0 /\ csn_fn = "correct_scientific_notation"
        THEN /\ csn_log' = SampleCommaPeriod(df_toko, df_master)
             /\ csn_result' = CsnRaised(InvalidStoreCodes, rows_comma_period)
             /\ csn_pc' = "raised"
        ELSE /\ csn_log' = <<>>
             /\ csn_result' = CsnReturned
             /\ csn_pc' = "returned"
  /\ UNCHANGED <<df_toko, df_toko_dtypes, csn_fn, sheet_toko, csn_prev, csn_prev_subs, csn_before,
                  df_master, df_master_dtypes, csn_variant, csn_subs>>
  /\ UNCHANGED <<ctoc_vars, rest_vars>>

CSN_Next ==
  \/ \E f \in CsnRevisions : CSN_Call(f)
  \/ \E ok \in BOOLEAN, dtypes \in MasterDtypes : CSN_Load(ok, dtypes)
  \/ CSN_Correct
  \/ CSN_Validate

-----------------------------------------------------------------------------
(* filter_iqr (src/src/utils.py) *)

\* Numbers are kept exact: a quantile is held in quarters (Q1 = 9 is 2.25),
\* a constant in halves (3 is 1.5), a bound in eighths (-12 is -1.5).

MaxIqrRows == 6
IqrValues == {1, 2, 3, 4, 5, 100}

\* config.LOWER_IQR_CONSTANT and config.UPPER_IQR_CONSTANT, in halves
LOWER_IQR_CONSTANT == 3
UPPER_IQR_CONSTANT == 3
\* the constants a caller passes: the defaults, or other ones
IqrConstants == { <<LOWER_IQR_CONSTANT, UPPER_IQR_CONSTANT>>, <<0, 2>> }

RECURSIVE Insert(_, _)
Insert(v, s) ==
  IF s = <<>> THEN << v >>
  ELSE IF v <= Head(s) THEN << v >> \o s
  ELSE << Head(s) >> \o Insert(v, Tail(s))

\* the values in ascending order
RECURSIVE Sorted(_)
Sorted(s) == IF s = <<>> THEN <<>> ELSE Insert(Head(s), Sorted(Tail(s)))

\* a faulty variant of Series.quantile: the lower neighbour, not interpolated
Quantile_Lower(s, q) ==
  LET x == Sorted(s)
      pos == (Len(s) - 1) * q
  IN 4 * x[(pos \div 4) + 1]

\* Series.quantile(q / 4), interpolation 'linear', of a non-empty column: the
\* value at position (n - 1) * q / 4 of the sorted values, between its two
\* neighbours when the position is no integer.  In quarters.
Quantile(s, q) ==
  LET x == Sorted(s)
      pos == (Len(s) - 1) * q
      lo == (pos \div 4) + 1
      frac == pos % 4
  IN IF frac = 0 THEN 4 * x[lo]
     ELSE 4 * x[lo] + frac * (x[lo + 1] - x[lo])

\* a faulty variant of lines 147-149: the bounds themselves are left out
Between_Strict(d, lower_bound, upper_bound) ==
  SelectSeq(d, LAMBDA v : 8 * v > lower_bound /\ 8 * v < upper_bound)

\* lines 147-149: (df[column] >= lower_bound) & (df[column] <= upper_bound)
Between(d, lower_bound, upper_bound) ==
  SelectSeq(d, LAMBDA v : 8 * v >= lower_bound /\ 8 * v <= upper_bound)

IqrNoResult ==
  [kind |-> "none", df_filtered |-> <<>>, nan |-> FALSE, Q1 |-> 0, Q3 |-> 0, IQR |-> 0,
   lower_bound |-> 0, upper_bound |-> 0, lower_constant |-> 0, upper_constant |-> 0,
   rows_removed |-> 0, pct_removed |-> <<0, 1>>]

\* lines 137-158.  Of an empty column the quantiles are NaN, and so are the
\* bounds; a comparison with NaN is false.  pct_removed is a fraction.
FilterIqr(d, lower_constant, upper_constant) ==
  IF d = <<>>
  THEN [IqrNoResult EXCEPT !.kind = "returned", !.nan = TRUE,
                           !.lower_constant = lower_constant,
                           !.upper_constant = upper_constant]
  ELSE LET Q1 == Quantile(d, 1)
           Q3 == Quantile(d, 3)
           IQR == Q3 - Q1
           lower_bound == 2 * Q1 - lower_constant * IQR
           upper_bound == 2 * Q3 + upper_constant * IQR
           df_filtered == Between(d, lower_bound, upper_bound)
           rows_before == Len(d)
           rows_after == Len(df_filtered)
           rows_removed == rows_before - rows_after
       IN [kind |-> "returned", df_filtered |-> df_filtered, nan |-> FALSE,
           Q1 |-> Q1, Q3 |-> Q3, IQR |-> IQR,
           lower_bound |-> lower_bound, upper_bound |-> upper_bound,
           lower_constant |-> lower_constant, upper_constant |-> upper_constant,
           rows_removed |-> rows_removed,
           pct_removed |-> << rows_removed * 100, rows_before >>]

IQR_Rest ==
  /\ iqr_df = <<>>
  /\ iqr_before = <<>>
  /\ iqr_pc = "idle"
  /\ iqr_result = IqrNoResult

IQR_Init ==
  /\ iqr_df \in SeqsUpTo(IqrValues, MaxIqrRows)
  /\ iqr_before = <<>>
  /\ iqr_pc = "idle"
  /\ iqr_result = IqrNoResult

\* a faulty variant of lines 147-149: the rows outside the bounds are dropped
\* from the caller's table itself
IQR_Call_InPlace(lower_constant, upper_constant) ==
  /\ iqr_pc = "idle"
  /\ iqr_before' = iqr_df
  /\ iqr_result' = FilterIqr(iqr_df, lower_constant, upper_constant)
  /\ iqr_df' = iqr_result'.df_filtered
  /\ iqr_pc' = "returned"
  /\ UNCHANGED <<ctoc_vars, csn_vars, su_vars, mask_vars, dt_vars>>

\* filter_iqr(df, column, lower_constant, upper_constant): the quantiles and
\* the comparisons read the caller's table, the selection is a copy
IQR_Call(lower_constant, upper_constant) ==
  /\ iqr_pc = "idle"
  /\ iqr_before' = iqr_df
  /\ iqr_result' = FilterIqr(iqr_df, lower_constant, upper_constant)
  /\ iqr_pc' = "returned"
  /\ UNCHANGED iqr_df
  /\ UNCHANGED <<ctoc_vars, csn_vars, su_vars, mask_vars, dt_vars>>

IQR_Next ==
  \E k \in IqrConstants : IQR_Call(k[1], k[2])

-----------------------------------------------------------------------------
(* sheets_updater (src/src/google_sheets_io.py) *)

MaxSheetRows == 2
MaxUpdateRows == 1

SheetCells == {"x", "a"}      \* what the worksheet holds before
UpdateCells == {"a", "b"}     \* the cells of the table
HeaderCells == << "c1", "c2" >>
Widths == {1, 2}

SheetRowValues == UNION {[1..w -> SheetCells] : w \in Widths}
UpdateTables ==
  UNION {[columns : {SubSeq(HeaderCells, 1, w)},
          values : SeqsUpTo([1..w -> UpdateCells], MaxUpdateRows)] : w \in Widths}

\* line 98, the argument: [df.columns.values.tolist()] + df.values.tolist()
HeaderAndRows(d) == << d.columns >> \o d.values

\* line 98: worksheet.update(values) with no range writes the values into the
\* cells from A1 on, row by row; a cell the values do not reach keeps what it
\* held (the sheet is not cleared)
Update(grid, values) ==
  [r \in 1..(IF Len(grid) > Len(values) THEN Len(grid) ELSE Len(values)) |->
     LET old == IF r <= Len(grid) THEN grid[r] ELSE <<>>
         new == IF r <= Len(values) THEN values[r] ELSE <<>>
     IN [c \in 1..(IF Len(old) > Len(new) THEN Len(old) ELSE Len(new)) |->
           IF c <= Len(new) THEN new[c] ELSE old[c]]]

SuNoResult == [kind |-> "none", error |-> ""]
SuReturned == [kind |-> "returned", error |-> ""]
SuRaised(e) == [kind |-> "raised", error |-> e]

SU_Rest ==
  /\ su_sheet = <<>>
  /\ su_before = <<>>
  /\ su_df = [columns |-> << "c1" >>, values |-> <<>>]
  /\ su_pc = "idle"
  /\ su_result = SuNoResult
  /\ su_attempts = [open |-> 0, update |-> 0]

SU_Init ==
  /\ su_sheet \in SeqsUpTo(SheetRowValues, MaxSheetRows)
  /\ su_before = <<>>
  /\ su_df \in UpdateTables
  /\ su_pc = "idle"
  /\ su_result = SuNoResult
  /\ su_attempts = [open |-> 0, update |-> 0]

\* sheets_updater(sheets_url, df, worksheet)
SU_Call ==
  /\ su_pc = "idle"
  /\ su_pc' = "open"
  /\ su_before' = su_sheet
  /\ UNCHANGED <<su_sheet, su_df, su_result, su_attempts>>
  /\ UNCHANGED <<ctoc_vars, csn_vars, iqr_vars, mask_vars, dt_vars>>

\* lines 84-96: credentials, authorization, the spreadsheet and the
\* worksheet; any of them may fail, and nothing catches the failure
SU_Open(ok) ==
  /\ su_pc = "open"
  /\ su_attempts' = [su_attempts EXCEPT !.open = @ + 1]
  /\ IF ok
     THEN /\ su_pc' = "update"
          /\ UNCHANGED su_result
     ELSE /\ su_pc' = "raised"
          /\ su_result' = SuRaised("GatewayError")
  /\ UNCHANGED <<su_sheet, su_before, su_df>>
  /\ UNCHANGED <<ctoc_vars, csn_vars, iqr_vars, mask_vars, dt_vars>>

\* lines 98-100: one request; it may fail, and then nothing is written
SU_Update(ok) ==
  /\ su_pc = "update"
  /\ su_attempts' = [su_attempts EXCEPT !.update = @ + 1]
  /\ IF ok
     THEN /\ su_sheet' = Update(su_sheet, HeaderAndRows(su_df))
          /\ su_pc' = "returned"
          /\ su_result' = SuReturned
     ELSE /\ su_pc' = "raised"
          /\ su_result' = SuRaised("GatewayError")
          /\ UNCHANGED su_sheet
  /\ UNCHANGED <<su_before, su_df>>
  /\ UNCHANGED <<ctoc_vars, csn_vars, iqr_vars, mask_vars, dt_vars>>

SU_Next ==
  \/ SU_Call
  \/ \E ok \in BOOLEAN : SU_Open(ok)
  \/ \E ok \in BOOLEAN : SU_Update(ok)

-----------------------------------------------------------------------------
(* mask_numeric_value (src/src/utils.py) *)

MaxValueLen == 4

\* a value is its string form, a sequence of characters; None is no string
MaskAlphabet == {"0", "5", ".", "-", " ", "e"}
NoneValue == << "None" >>
StrNone == << "N", "o", "n", "e" >>
MaskChars == {"*", "#"}

\* config.SYMBOLS_TO_PRESERVE
SYMBOLS_TO_PRESERVE == {",", ".", "%", " ", "+", "-"}

\* str.isdigit()
IsDigit(c) == c \in {"0", "1", "2", "3", "4", "5", "6", "7", "8", "9"}

\* str.strip()
RECURSIVE LStrip(_)
LStrip(s) == IF s # <<>> /\ Head(s) = " " THEN LStrip(Tail(s)) ELSE s
RECURSIVE RStrip(_)
RStrip(s) == IF s # <<>> /\ s[Len(s)] = " " THEN RStrip(SubSeq(s, 1, Len(s) - 1)) ELSE s
Strip(s) == RStrip(LStrip(s))

\* lines 93-95: every preserved symbol replaced by ''
RemoveSymbols(s) == SelectSeq(s, LAMBDA c : c \notin SYMBOLS_TO_PRESERVE)

AllDigits(s) == s # <<>> /\ \A i \in 1..Len(s) : IsDigit(s[i])

\* the place of the exponent mark of a string float() accepts, 0 when it has
\* none.  With the symbols gone there is neither sign nor point: float()
\* accepts digits, or digits, 'e' and digits.
ExponentAt(s) ==
  LET marks == {k \in 2..(Len(s) - 1) :
                  /\ s[k] \in {"e", "E"}
                  /\ AllDigits(SubSeq(s, 1, k - 1))
                  /\ AllDigits(SubSeq(s, k + 1, Len(s)))}
  IN IF marks = {} THEN 0 ELSE CHOOSE k \in marks : TRUE

\* float(s) does not raise ValueError
IsFloat(s) == AllDigits(s) \/ ExponentAt(s) # 0

\* line 98: float(s) == 0, for a string float() accepts
FloatIsZero(s) ==
  LET mantissa == IF ExponentAt(s) = 0 THEN s ELSE SubSeq(s, 1, ExponentAt(s) - 1)
  IN \A i \in 1..Len(mantissa) : mantissa[i] = "0"

\* lines 104-107
MaskDigits(s, mask_char) == [i \in 1..Len(s) |-> IF IsDigit(s[i]) THEN mask_char ELSE s[i]]

\* a faulty variant: zeros are masked like every other number
MaskNumericValue_NoZero(value, mask_char, hide_values) ==
  IF value = NoneValue THEN StrNone
  ELSE IF Strip(value) = <<>> \/ ~hide_values THEN Strip(value)
  ELSE MaskDigits(Strip(value), mask_char)

\* lines 81-109
MaskNumericValue(value, mask_char, hide_values) ==
  IF value = NoneValue THEN StrNone
  ELSE LET value_str == Strip(value)
           numeric_only == RemoveSymbols(value_str)
       IN IF value_str = <<>> \/ ~hide_values THEN value_str
          ELSE IF IsFloat(numeric_only) /\ FloatIsZero(numeric_only) THEN value_str
          ELSE MaskDigits(value_str, mask_char)

MaskNoResult == [kind |-> "none", masked |-> <<>>, mask_char |-> "*"]

MASK_Rest ==
  /\ mask_value = <<>>
  /\ mask_hide = TRUE
  /\ mask_pc = "idle"
  /\ mask_result = MaskNoResult

MASK_Init ==
  /\ mask_value \in SeqsUpTo(MaskAlphabet, MaxValueLen) \cup {NoneValue}
  /\ mask_hide \in BOOLEAN
  /\ mask_pc = "idle"
  /\ mask_result = MaskNoResult

\* mask_numeric_value(value, mask_char, symbols_to_preserve, hide_values)
MASK_Call(mask_char) ==
  /\ mask_pc = "idle"
  /\ mask_result' = [kind |-> "returned",
                     masked |-> MaskNumericValue(mask_value, mask_char, mask_hide),
                     mask_char |-> mask_char]
  /\ mask_pc' = "returned"
  /\ UNCHANGED <<mask_value, mask_hide>>
  /\ UNCHANGED <<ctoc_vars, csn_vars, iqr_vars, su_vars, dt_vars>>

MASK_Next ==
  \E mask_char \in MaskChars : MASK_Call(mask_char)

-----------------------------------------------------------------------------
(* DataTracker (src/src/utils.py) *)

MaxTracks == 3
MaxTrackRows == 2

\* None, and a value that is not None
PyNone == <<>>
Some(n) == << n >>

StepNames == {"load", "filter"}
\* the tables handed to track: the rows, as far as rows_unique tells them apart
TrackTables == SeqsUpTo({"a", "b"}, MaxTrackRows)

\* lines 470-473: rows_unique is a list of columns, or None
CurrentRows(d, rows_unique) ==
  IF rows_unique THEN Cardinality({d[i] : i \in 1..Len(d)}) ELSE Len(d)

DtNoCall == [op |-> "__init__", returned |-> PyNone]

\* lines 440-447
DT_Init ==
  /\ dt_start_rows = PyNone
  /\ dt_clock = 0
  /\ dt_start_time = dt_clock
  /\ dt_steps = <<>>
  /\ dt_rows = <<>>
  /\ dt_timestamps = <<>>
  /\ dt_track_calls = 0
  /\ dt_first = PyNone
  /\ dt_latest = PyNone
  /\ dt_last = DtNoCall

\* a faulty variant of line 476: a count of 0 is taken for no count
StartRows_Falsy(start_rows, current_rows) ==
  IF start_rows = PyNone \/ start_rows = Some(0) THEN Some(current_rows) ELSE start_rows

\* lines 476-477: if self.start_rows is None
StartRows(start_rows, current_rows) ==
  IF start_rows = PyNone THEN Some(current_rows) ELSE start_rows

\* lines 468-501: the clock has moved on by tick since it was last read
DT_Track(d, step_name, rows_unique, tick) ==
  /\ dt_track_calls < MaxTracks
  /\ LET current_time == dt_clock + tick
         current_rows == CurrentRows(d, rows_unique)
     IN /\ dt_clock' = current_time
        /\ dt_start_rows' = StartRows(dt_start_rows, current_rows)
        /\ dt_steps' = Append(dt_steps, step_name)
        /\ dt_rows' = Append(dt_rows, current_rows)
        /\ dt_timestamps' = Append(dt_timestamps, current_time)
        /\ dt_first' = IF dt_track_calls = 0 THEN Some(current_rows) ELSE dt_first
        /\ dt_latest' = Some(current_rows)
        /\ dt_last' = [op |-> "track", returned |-> PyNone]
  /\ dt_track_calls' = dt_track_calls + 1
  /\ UNCHANGED dt_start_time
  /\ UNCHANGED <<ctoc_vars, csn_vars, iqr_vars, su_vars, mask_vars>>

\* a faulty variant: the first count, not the last
GetFinalRows_First(rows) == IF rows # <<>> THEN rows[1] ELSE 0

\* lines 523-526
GetFinalRows(rows) == IF rows # <<>> THEN rows[Len(rows)] ELSE 0

DT_GetFinalRows ==
  /\ dt_last' = [op |-> "get_final_rows", returned |-> Some(GetFinalRows(dt_rows))]
  /\ UNCHANGED <<dt_start_rows, dt_start_time, dt_steps, dt_rows, dt_timestamps, dt_clock,
                  dt_track_calls, dt_first, dt_latest>>
  /\ UNCHANGED <<ctoc_vars, csn_vars, iqr_vars, su_vars, mask_vars>>

DT_Next ==
  \/ \E d \in TrackTables, step_name \in StepNames, rows_unique \in BOOLEAN, tick \in 0..1 :
        DT_Track(d, step_name, rows_unique, tick)
  \/ DT_GetFinalRows

-----------------------------------------------------------------------------
(* The specifications: one per component, the others at rest *)

CTOC_Start ==
  /\ df = <<>>
  /\ df_before = <<>>
  /\ sheet_op = <<>>
  /\ fn = "convert_to_op_code"
  /\ method = "complete"
  /\ pc = "idle"
  /\ df_master_op = <<>>
  /\ df_merged = <<>>
  /\ result = NoResult
  /\ sheets_loader_calls = 0
  /\ sheets_loader_failures = 0
  /\ merges = 0

CSN_Rest ==
  /\ CSN_Start
  /\ df_toko = <<>>
  /\ df_toko_dtypes = AllObject
  /\ sheet_toko = <<>>

InitCSN == CSN_Init /\ CTOC_Start /\ IQR_Rest /\ SU_Rest /\ MASK_Rest /\ DT_Init

SpecCSN == InitCSN /\ [][CSN_Next]_vars

InitCTOC == CTOC_Init /\ CSN_Rest /\ IQR_Rest /\ SU_Rest /\ MASK_Rest /\ DT_Init

SpecCTOC == InitCTOC /\ [][CTOC_Next]_vars

InitIQR == IQR_Init /\ CTOC_Start /\ CSN_Rest /\ SU_Rest /\ MASK_Rest /\ DT_Init

SpecIQR == InitIQR /\ [][IQR_Next]_vars

InitSU == SU_Init /\ CTOC_Start /\ CSN_Rest /\ IQR_Rest /\ MASK_Rest /\ DT_Init

SpecSU == InitSU /\ [][SU_Next]_vars

InitMASK == MASK_Init /\ CTOC_Start /\ CSN_Rest /\ IQR_Rest /\ SU_Rest /\ DT_Init

SpecMASK == InitMASK /\ [][MASK_Next]_vars

InitDT == DT_Init /\ CTOC_Start /\ CSN_Rest /\ IQR_Rest /\ SU_Rest /\ MASK_Rest

SpecDT == InitDT /\ [][DT_Next]_vars

-----------------------------------------------------------------------------
(* Code reconciliation: what the joins are meant to compute, stated on the  *)
(* caller's table and the sheet, without the joins.                         *)

Names(master) == {master[k].OperatingPoint : k \in 1..Len(master)}
Codes(master) == {master[k].KodeOP : k \in 1..Len(master)}

\* a value the lookup can resolve: one of its names or one of its codes
Resolvable(v, master) == v \in Names(master) \cup Codes(master)

\* the codes a value resolves to: as a name first, as a code otherwise
ResolvedCodes(v, master) ==
  IF v \in Names(master)
  THEN {master[k].KodeOP : k \in {k \in 1..Len(master) : master[k].OperatingPoint = v}}
  ELSE IF v \in Codes(master) THEN {v} ELSE {}

Rows(t) == {t[j] : j \in 1..Len(t)}

UnresolvedInputs == {i \in 1..Len(df) : ~Resolvable(df[i].OP, sheet_op)}
ResolvableInputs == {i \in 1..Len(df) : Resolvable(df[i].OP, sheet_op)}

\* the call is over and got as far as the joins
Ended == pc \in {"returned", "raised"}
Joined == Ended /\ merges > 0
Current == fn = "convert_to_op_code"

OpCode_CompleteReturnsInput ==
  (fn = "op_code" /\ method = "complete" /\ Joined) =>
     /\ pc = "returned"
     /\ UnresolvedInputs # {} => result.table = df

\* C2: under method "partial" a call that has loaded its lookup never raises.
C2_PartialNeverFails ==
  (Current /\ method = "partial" /\ Joined) => pc # "raised"

\* C3: the error raised under "complete" lists the distinct original values
\* of the OP column of the rows that could not be resolved.
C3_ErrorListsUnresolvedNames ==
  (Current /\ pc = "raised" /\ result.error = UnmappedError) =>
     Rows(result.unmapped_ops) = {df[i].OP : i \in UnresolvedInputs}

\* C4: a method other than "complete" and "partial" is rejected before the
\* gateway is contacted and before any join is made.
C4_InvalidMethodFailsFirst ==
  (pc = "raised" /\ result.error = MethodError) =>
     sheets_loader_calls = 0 /\ merges = 0

C6_ValidCodeUnchanged ==
  (Current /\ pc = "returned") =>
     \A i \in 1..Len(df) :
        df[i].OP \in Codes(sheet_op) =>
           [Trip |-> df[i].Trip, OP |-> df[i].OP] \in Rows(result.table)

\* a code that the name join leaves alone: no lookup row lists it as a name
\* with another code
NameJoinKeeps(v, master) ==
  \A k \in 1..Len(master) : master[k].OperatingPoint = v => master[k].KodeOP = v

\* C6, amended: every row whose OP value is a code of the lookup, and is not
\* listed by the lookup as the name of another code, comes out with that
\* code; a table of such rows only comes back as it went in, duplicates
\* dropped.
C6_ValidCodeUnchangedUnlessAlsoName ==
  (Current /\ pc = "returned") =>
     /\ \A i \in 1..Len(df) :
          (df[i].OP \in Codes(sheet_op) /\ NameJoinKeeps(df[i].OP, sheet_op)) =>
             [Trip |-> df[i].Trip, OP |-> df[i].OP] \in Rows(result.table)
     /\ (\A i \in 1..Len(df) :
           df[i].OP \in Codes(sheet_op) /\ NameJoinKeeps(df[i].OP, sheet_op)) =>
          /\ Rows(result.table) = Rows(df)
          /\ Len(result.table) = Cardinality(Rows(df))

\* C6, witness: a row holding a code that is no name of the lookup went
\* through the code join and was returned.
C6_Witness ==
  /\ Current /\ pc = "returned" /\ merges = 2
  /\ \E i \in 1..Len(df) :
       /\ df[i].OP \in Codes(sheet_op) \ Names(sheet_op)
       /\ [Trip |-> df[i].Trip, OP |-> df[i].OP] \in Rows(result.table)

\* the lookup lists no name with two codes, the caller's table no row twice
OneCodePerName(master) ==
  \A k1, k2 \in 1..Len(master) :
     master[k1].OperatingPoint = master[k2].OperatingPoint => master[k1].KodeOP = master[k2].KodeOP
NoRowTwice(t) == \A i1, i2 \in 1..Len(t) : t[i1] = t[i2] => i1 = i2

\* C7, as stated: the returned table has exactly one row for each resolvable
\* row of the caller's table (here even for a lookup with one code per name
\* and a table without repeated rows).
C7_OneRowPerResolvableRow ==
  (Current /\ pc = "returned" /\ OneCodePerName(sheet_op) /\ NoRowTwice(df)) =>
     Len(result.table) = Cardinality(ResolvableInputs)

\* the rows the caller's table resolves to
ResolvedRows ==
  {[Trip |-> df[i].Trip, OP |-> c] : <<i, c>> \in
     {<<i, c>> \in (1..Len(df)) \X Codes(sheet_op) : c \in ResolvedCodes(df[i].OP, sheet_op)}}

\* C7, amended: the returned table holds, once each, the rows the caller's
\* table resolves to: for every resolvable row its other columns with each
\* code its value resolves to.  No resolvable row is lost, but rows that are
\* equal once resolved share one row, and a name listed with two codes gives
\* two.
C7_OneRowPerResolvedRow ==
  (Current /\ pc = "returned") =>
     /\ Rows(result.table) = ResolvedRows
     /\ Len(result.table) = Cardinality(ResolvedRows)
     /\ \A i \in ResolvableInputs :
          \E j \in 1..Len(result.table) :
             /\ result.table[j].Trip = df[i].Trip
             /\ result.table[j].OP \in ResolvedCodes(df[i].OP, sheet_op)

\* C7, witness: a name and its code on rows that are otherwise equal come
\* back as a single row.
C7_Witness ==
  /\ Current /\ pc = "returned" /\ Len(df) = 2 /\ Len(result.table) = 1
  /\ df[1].Trip = df[2].Trip /\ df[1].OP # df[2].OP
  /\ ResolvableInputs = {1, 2}

\* the second scenario of the specification: the lookup lacks the first
\* row's name and knows the second row's code
Scenario2 ==
  /\ Len(df) = 2
  /\ df[1].OP = "Point Balikpapan Reguler" /\ df[2].OP = "PBPNR"
  /\ "Point Balikpapan Reguler" \notin Names(sheet_op) \cup Codes(sheet_op)
  /\ "PBPNR" \in Codes(sheet_op) \ Names(sheet_op)

\* C8: under "partial" the returned table is the merged table without its
\* rows that have no code, every other row kept in order; the rows dropped
\* are those of the unresolved rows of the caller's table (one per distinct
\* rest of the row); in the scenario only the second row remains.
C8_PartialDropsExactlyUnresolved ==
  (Current /\ method = "partial" /\ pc = "returned") =>
     /\ \A j \in 1..Len(result.table) : result.table[j].OP # NaN
     /\ \A k \in 1..Len(df_merged) :
          df_merged[k].OP # NaN => df_merged[k] \in Rows(result.table)
     /\ Rows(result.table) \subseteq Rows(df_merged)
     /\ \A j1, j2 \in 1..Len(result.table) :
          j1 < j2 =>
            \E k1, k2 \in 1..Len(df_merged) :
               k1 < k2 /\ df_merged[k1] = result.table[j1] /\ df_merged[k2] = result.table[j2]
     /\ result.rows_dropped = Len(df_merged) - Len(result.table)
     /\ result.rows_dropped = Cardinality({df[i].Trip : i \in UnresolvedInputs})
     /\ Scenario2 => result.table = << [Trip |-> df[2].Trip, OP |-> "PBPNR"] >>

\* C8, witness: the scenario, with the first row dropped.
C8_Witness ==
  /\ Current /\ method = "partial" /\ pc = "returned"
  /\ Scenario2 /\ result.rows_dropped = 1 /\ Len(result.table) = 1

-----------------------------------------------------------------------------
(* Code reconciliation: the caller's table *)

\* C22: from the moment it is called, whichever the revision and the method
\* and however the call ends, the call leaves the caller's table as it was:
\* the same rows in the same order.  What a call returns is another table,
\* but for op_code under 'complete' with unresolved rows, which hands back
\* the caller's own.
C22_InputTableUntouched ==
  pc # "idle" =>
     /\ df = df_before
     /\ (pc = "returned" /\ result.unmapped_ops # <<>>) => result.table = df_before

\* C22, witness: a call under 'partial' dropped a row and returned a table
\* that is not the caller's, the caller's being what it was.
C22_Witness ==
  /\ pc = "returned" /\ method = "partial" /\ fn = "convert_to_op_code"
  /\ result.rows_dropped = 1 /\ Len(df_before) = 2
  /\ result.table # df_before
  /\ df = df_before

-----------------------------------------------------------------------------
(* Notation repair: statements *)

\* the correction pass of the call has run
PassDone ==
  \/ csn_pc = "validate"
  \/ csn_pc = "returned"
  \/ csn_pc = "raised" /\ csn_result.error = InvalidStoreCodes

HasComma(t) == \E i \in 1..Len(t) : Contains(t[i].Toko, ",")
HasPeriod(t) == \E i \in 1..Len(t) : Contains(t[i].Toko, ".")

\* the canonical values of the sheet that themselves hold a period
PeriodCanonicals ==
  {sheet_toko[k].TokoBenar : k \in {k \in 1..Len(sheet_toko) : Contains(sheet_toko[k].TokoBenar, ".")}}

\* C9, as stated: a call that follows a call that returned changes no cell.
C9_SecondCallChangesNothing ==
  csn_prev = "returned" => csn_subs = 0 /\ (PassDone => df_toko = csn_before)

\* C9, amended: a call that follows a call that returned changes no cell
\* provided the table it is given holds none of the sheet's canonical values
\* that contain a period.  Such a value passes the validation of the first
\* call although it holds a delimiter, the second call then builds a mapping
\* again, and that mapping may rewrite cells.
C9_SecondCallChangesNothingWithoutExempt ==
  (/\ csn_prev = "returned"
   /\ \A i \in 1..Len(csn_before) : csn_before[i].Toko \notin PeriodCanonicals) =>
     /\ csn_subs = 0
     /\ PassDone => df_toko = csn_before /\ csn_variant = "none"
     /\ csn_pc = "raised" => csn_result.error \in {"GatewayError", MasterColumnTypeError}

\* C9, witness: the first call rewrote a cell and returned, and the second
\* call returned too.
C9_Witness ==
  /\ csn_prev = "returned" /\ csn_prev_subs > 0 /\ csn_pc = "returned"
  /\ \A i \in 1..Len(csn_before) : csn_before[i].Toko \notin PeriodCanonicals
  /\ PeriodCanonicals # {}
  /\ df_toko = csn_before

\* the cell of row i is as it was, or is the canonical value of a sheet row
\* whose key, with delimiter a written as b, is the key of row i
ByMapping(i, a, b) ==
  \/ df_toko[i] = csn_before[i]
  \/ \E k \in 1..Len(sheet_toko) :
       /\ sheet_toko[k].KodeOP = csn_before[i].OP
       /\ sheet_toko[k].KM = csn_before[i].KM
       /\ Replace(sheet_toko[k].TokoSaintifik, a, b) = csn_before[i].Toko
       /\ df_toko[i] = [csn_before[i] EXCEPT !.Toko = sheet_toko[k].TokoBenar]

\* the sheet rows whose key, with delimiter a written as b, is the key of row i
Entries(i, a, b) ==
  {k \in 1..Len(sheet_toko) :
     /\ sheet_toko[k].KodeOP = csn_before[i].OP
     /\ sheet_toko[k].KM = csn_before[i].KM
     /\ Replace(sheet_toko[k].TokoSaintifik, a, b) = csn_before[i].Toko}

\* the mapping with a written as b has an entry for row i (the last of the
\* sheet rows with its key) and that entry would change its cell
WouldRewrite(i, a, b) ==
  /\ Entries(i, a, b) # {}
  /\ \E k \in Entries(i, a, b) :
       /\ \A h \in Entries(i, a, b) : h <= k
       /\ sheet_toko[k].TokoBenar # csn_before[i].Toko

\* C10: one mapping per call.  If a cell of the table holds a comma the
\* comma mapping (periods of the sheet's token written as commas) is the one
\* built: cells change through it only, and a cell holding a period stays as
\* it was whatever the sheet says.  The period mapping is built exactly when
\* no cell holds a comma and some cell holds a period.
C10_OneVariantCommaFirst ==
  PassDone =>
     /\ Len(df_toko) = Len(csn_before)
     /\ (csn_variant = "comma") <=> HasComma(csn_before)
     /\ (csn_variant = "period") <=> (~HasComma(csn_before) /\ HasPeriod(csn_before))
     /\ csn_variant = "comma" =>
          \A i \in 1..Len(csn_before) :
             /\ ByMapping(i, ".", ",")
             /\ Contains(csn_before[i].Toko, ".") => df_toko[i] = csn_before[i]
             /\ WouldRewrite(i, ".", ",") => df_toko[i] # csn_before[i]
     /\ csn_variant = "period" =>
          \A i \in 1..Len(csn_before) :
             /\ ByMapping(i, ",", ".")
             /\ WouldRewrite(i, ",", ".") => df_toko[i] # csn_before[i]
     /\ csn_variant = "none" => df_toko = csn_before

\* C10, witness: a table with a comma cell and a period cell; the sheet
\* would rewrite the period cell under the period mapping; the comma mapping
\* was built, rewrote the comma cell and left the period cell.
C10_Witness ==
  /\ PassDone /\ csn_variant = "comma" /\ csn_subs > 0
  /\ \E i \in 1..Len(csn_before) :
       /\ Contains(csn_before[i].Toko, ".")
       /\ WouldRewrite(i, ",", ".")
       /\ df_toko[i] = csn_before[i]

\* the call is one of the current revision
CsnCurrent == csn_fn = "correct_scientific_notation"

\* the call is over and went through the correction pass
CsnEnded == csn_pc \in {"returned", "raised"} /\ PassDone

\* the canonical value of the mapping entry of row i: of the sheet rows with
\* its key the last one is the entry
EntryValue(i, a, b) ==
  sheet_toko[CHOOSE k \in Entries(i, a, b) : \A h \in Entries(i, a, b) : h <= k].TokoBenar

\* C11: when a mapping is applied, every row whose key (OP, KM, token) has an
\* entry gets the canonical value of that entry, every row without an entry
\* keeps its value, and no other column changes.  A sheet row with the token
\* written with a period resolves a row of the table that holds the same
\* token written with a comma.
C11_MappingAppliedByCompositeKey ==
  (PassDone /\ csn_variant # "none") =>
     LET a == IF csn_variant = "comma" THEN "." ELSE ","
         b == IF csn_variant = "comma" THEN "," ELSE "."
     IN /\ Len(df_toko) = Len(csn_before)
        /\ \A i \in 1..Len(csn_before) :
             /\ df_toko[i].OP = csn_before[i].OP
             /\ df_toko[i].KM = csn_before[i].KM
             /\ Entries(i, a, b) # {} => df_toko[i].Toko = EntryValue(i, a, b)
             /\ Entries(i, a, b) = {} => df_toko[i].Toko = csn_before[i].Toko
             /\ (/\ csn_before[i].Toko = T_comma
                 /\ sheet_toko = << [KodeOP |-> csn_before[i].OP, KM |-> csn_before[i].KM,
                                     TokoSaintifik |-> T_period, TokoBenar |-> T_plain] >>)
                  => df_toko[i].Toko = T_plain

\* C11, witness: the sheet's one row maps 8.00E+34 to 8E34; the table's row
\* for the same OP with 8,00E+34 came out as 8E34, and its row for another
\* OP, without an entry, kept its value.
C11_Witness ==
  /\ PassDone /\ csn_variant = "comma" /\ Len(csn_before) = 2
  /\ sheet_toko = << [KodeOP |-> "A", KM |-> "K", TokoSaintifik |-> T_period,
                      TokoBenar |-> T_plain] >>
  /\ csn_before[1] = [OP |-> "A", KM |-> "K", Toko |-> T_comma]
  /\ csn_before[2] = [OP |-> "B", KM |-> "K", Toko |-> T_comma]
  /\ df_toko[1].Toko = T_plain
  /\ df_toko[2].Toko = T_comma

\* a value that still holds a delimiter and is not exempt
ResidualValue(v) ==
  (Contains(v, ",") \/ Contains(v, ".")) /\ v \notin PeriodCanonicals

ChangeScientificNotation_ReturnsWithResidual ==
  (~CsnCurrent /\ CsnEnded) => csn_pc = "returned"

\* the cells that hold a residual value, in row order
ResidualCells ==
  LET rows == SelectSeq(df_toko, LAMBDA r : ResidualValue(r.Toko))
  IN [i \in 1..Len(rows) |-> rows[i].Toko]

\* C13: the validation error carries the number of residual rows and a sample
\* of the offending values, the first min(5, total) in row order.
C13_ErrorCarriesCountAndSample ==
  (CsnCurrent /\ csn_pc = "raised" /\ csn_result.error = InvalidStoreCodes) =>
     /\ csn_result.rows_comma_period = Len(ResidualCells)
     /\ csn_result.sample =
          SubSeq(ResidualCells, 1, IF Len(ResidualCells) < 5 THEN Len(ResidualCells) ELSE 5)

\* What the code does with the sample: it goes to the log (logger.warning),
\* the first min(5, total) values in row order, and the error carries the
\* count alone.
SampleIsLogged ==
  (CsnCurrent /\ csn_pc = "raised" /\ csn_result.error = InvalidStoreCodes) =>
     /\ csn_result.rows_comma_period = Len(ResidualCells)
     /\ csn_result.sample = <<>>
     /\ csn_log =
          SubSeq(ResidualCells, 1, IF Len(ResidualCells) < 5 THEN Len(ResidualCells) ELSE 5)

\* C21: when correct_scientific_notation raises the validation error the
\* caller's table is the table the correction pass left, not the table the
\* call was given: every row with a mapping entry holds the entry's value,
\* and differs from what it was wherever that value is another one than the
\* cell held; the number of cells that differ is the number the pass changed.
C21_FailedCallLeavesSubstitutions ==
  (CsnCurrent /\ csn_pc = "raised" /\ csn_result.error = InvalidStoreCodes) =>
     LET a == IF csn_variant = "comma" THEN "." ELSE ","
         b == IF csn_variant = "comma" THEN "," ELSE "."
     IN /\ csn_variant # "none"
        /\ Len(df_toko) = Len(csn_before)
        /\ \A i \in 1..Len(csn_before) :
             /\ Entries(i, a, b) # {} => df_toko[i].Toko = EntryValue(i, a, b)
             /\ WouldRewrite(i, a, b) => df_toko[i] # csn_before[i]
        /\ csn_subs = Changed(csn_before, df_toko)
        /\ csn_subs = Cardinality({i \in 1..Len(csn_before) : WouldRewrite(i, a, b)})

\* C21, witness: the call raised for the cell of one row, and the cell of the
\* other row, which had a mapping entry, is not what it was when the call
\* began.
C21_Witness ==
  /\ CsnCurrent /\ csn_pc = "raised" /\ csn_result.error = InvalidStoreCodes
  /\ Len(csn_before) = 2
  /\ \E i, j \in 1..Len(csn_before) :
       /\ i # j
       /\ WouldRewrite(i, ".", ",") /\ df_toko[i] # csn_before[i]
       /\ df_toko[j] = csn_before[j] /\ ResidualValue(df_toko[j].Toko)

\* no row of the table holds a comma or a period in its target value
NoDelimiter(t) == ~HasComma(t) /\ ~HasPeriod(t)

\* row i of the table the call was given has the key (OP, KM, token) of a
\* sheet row whose canonical value is another one than its cell
KeyMatches(i) ==
  \E k \in 1..Len(sheet_toko) :
     /\ sheet_toko[k].KodeOP = csn_before[i].OP
     /\ sheet_toko[k].KM = csn_before[i].KM
     /\ sheet_toko[k].TokoSaintifik = csn_before[i].Toko
     /\ sheet_toko[k].TokoBenar # csn_before[i].Toko

\* C23: a call, of either revision, on a table of which no target value
\* holds a comma or a period builds no mapping, changes no cell and returns,
\* whatever the sheet holds for the keys of its rows.
C23_NoDelimiterNoMapping ==
  (PassDone /\ NoDelimiter(csn_before)) =>
     /\ csn_variant = "none"
     /\ csn_subs = 0
     /\ df_toko = csn_before
     /\ csn_pc # "raised"
     /\ csn_result.error = ""

\* C23, witness: both rows of the table hold 8E34, the sheet has a row with
\* the key of the first that gives another value, and the call returned the
\* table as it was.
C23_Witness ==
  /\ csn_pc = "returned" /\ csn_prev = "none"
  /\ Len(csn_before) = 2 /\ NoDelimiter(csn_before)
  /\ KeyMatches(1)
  /\ df_toko = csn_before

\* the designated columns that are not textual, by their place in the list
NonTextual(cols, dtypes) == {i \in 1..Len(cols) : dtypes[cols[i]] # "object"}
First(S) == CHOOSE i \in S : \A j \in S : i <= j

\* C14: a call on a table with a designated column that is not textual raises
\* the TypeError that names the first such column and its dtype, and so does
\* a call whose loaded lookup has such a column; in both cases no cell of the
\* caller's table has changed.  No TypeError is raised otherwise.
C14_NonTextualColumnFailsBeforeMutation ==
  /\ (csn_pc # "idle" /\ NonTextual(TokoColumnList, df_toko_dtypes) # {}) =>
        /\ csn_pc = "raised"
        /\ csn_result.error = ColumnTypeError
        /\ csn_result.column = TokoColumnList[First(NonTextual(TokoColumnList, df_toko_dtypes))]
        /\ csn_result.dtype = df_toko_dtypes[csn_result.column]
        /\ df_toko = csn_before /\ csn_subs = 0
  /\ NonTextual(MasterColumnList, df_master_dtypes) # {} =>
        /\ csn_pc = "raised"
        /\ csn_result.error = MasterColumnTypeError
        /\ csn_result.column =
             MasterColumnList[First(NonTextual(MasterColumnList, df_master_dtypes))]
        /\ csn_result.dtype = df_master_dtypes[csn_result.column]
        /\ df_toko = csn_before /\ csn_subs = 0
  /\ csn_result.error = ColumnTypeError => NonTextual(TokoColumnList, df_toko_dtypes) # {}
  /\ csn_result.error = MasterColumnTypeError =>
        NonTextual(MasterColumnList, df_master_dtypes) # {}

\* C14, witness: a table whose KM and Toko columns hold numbers and whose
\* cells would be rewritten if they were text: the call raised, naming KM.
C14_Witness ==
  /\ csn_pc = "raised" /\ csn_result.error = ColumnTypeError
  /\ df_toko_dtypes = [OP |-> "object", KM |-> "int64", Toko |-> "int64"]
  /\ csn_result.column = "KM" /\ csn_result.dtype = "int64"
  /\ Len(df_toko) = 2 /\ Len(sheet_toko) > 0

-----------------------------------------------------------------------------
(* filter_iqr: statements *)

\* the k-th smallest value of a non-empty column, found by counting
Kth(d, k) ==
  CHOOSE v \in {d[i] : i \in 1..Len(d)} :
     /\ Cardinality({i \in 1..Len(d) : d[i] < v}) < k
     /\ k <= Cardinality({i \in 1..Len(d) : d[i] <= v})

\* the linearly interpolated percentile q/4 of a non-empty column, in
\* quarters: the weighted mean of the two values around rank (n - 1) * q / 4
Percentile(d, q) ==
  LET pos == (Len(d) - 1) * q
      below == pos \div 4
      frac == pos % 4
  IN IF frac = 0 THEN 4 * Kth(d, below + 1)
     ELSE (4 - frac) * Kth(d, below + 1) + frac * Kth(d, below + 2)

Occurrences(d, v) == Cardinality({i \in 1..Len(d) : d[i] = v})

\* the column holds 1, 2, 3, 4, 5 and 100, once each, in some order
ExampleColumn == Len(iqr_df) = 6 /\ {iqr_df[i] : i \in 1..6} = {1, 2, 3, 4, 5, 100}

\* C15: Q1 and Q3 are the linearly interpolated 25th and 75th percentiles,
\* IQR = Q3 - Q1, lower_bound = Q1 - lower_constant * IQR and upper_bound =
\* Q3 + upper_constant * IQR; for 1, 2, 3, 4, 5, 100 and both constants 1.5:
\* Q1 = 2.25, Q3 = 4.75, IQR = 2.5, bounds -1.5 and 8.5, the row 100 left out.
C15_BoundsFromInterpolatedQuartiles ==
  (iqr_pc = "returned" /\ iqr_df # <<>>) =>
     /\ ~iqr_result.nan
     /\ iqr_result.Q1 = Percentile(iqr_df, 1)
     /\ iqr_result.Q3 = Percentile(iqr_df, 3)
     /\ iqr_result.IQR = iqr_result.Q3 - iqr_result.Q1
     /\ iqr_result.lower_bound = 2 * iqr_result.Q1 - iqr_result.lower_constant * iqr_result.IQR
     /\ iqr_result.upper_bound = 2 * iqr_result.Q3 + iqr_result.upper_constant * iqr_result.IQR
     /\ (ExampleColumn /\ iqr_result.lower_constant = 3 /\ iqr_result.upper_constant = 3) =>
           /\ iqr_result.Q1 = 9 /\ iqr_result.Q3 = 19 /\ iqr_result.IQR = 10
           /\ iqr_result.lower_bound = -12 /\ iqr_result.upper_bound = 68
           /\ iqr_result.df_filtered = SelectSeq(iqr_df, LAMBDA v : v # 100)

\* C15, witness: the example, called with the default constants.
C15_Witness ==
  /\ iqr_pc = "returned" /\ iqr_df = << 1, 2, 3, 4, 5, 100 >>
  /\ iqr_result.lower_constant = 3 /\ iqr_result.upper_constant = 3
  /\ iqr_result.df_filtered = << 1, 2, 3, 4, 5 >>

\* C16: the filtered table holds exactly the rows of the input whose value v
\* has lower_bound <= v <= upper_bound, a value equal to a bound included:
\* such a value is there as often as in the input, any other value not at all.
C16_KeepsExactlyRowsWithinBounds ==
  (iqr_pc = "returned" /\ iqr_df # <<>>) =>
     /\ \A v \in IqrValues :
          Occurrences(iqr_result.df_filtered, v) =
             IF iqr_result.lower_bound <= 8 * v /\ 8 * v <= iqr_result.upper_bound
             THEN Occurrences(iqr_df, v) ELSE 0
     /\ iqr_result.rows_removed = Len(iqr_df) - Len(iqr_result.df_filtered)

\* C16, witness: a row whose value is the lower bound and a row whose value
\* is the upper bound were kept, and a row below and a row above were left out.
C16_Witness ==
  /\ iqr_pc = "returned"
  /\ \E i, j, k, l \in 1..Len(iqr_df) :
       /\ 8 * iqr_df[i] = iqr_result.lower_bound
       /\ 8 * iqr_df[j] = iqr_result.upper_bound
       /\ 8 * iqr_df[k] < iqr_result.lower_bound
       /\ 8 * iqr_df[l] > iqr_result.upper_bound
       /\ Occurrences(iqr_result.df_filtered, iqr_df[i]) > 0
       /\ Occurrences(iqr_result.df_filtered, iqr_df[j]) > 0
       /\ Occurrences(iqr_result.df_filtered, iqr_df[k]) = 0

\* a is b with some of its rows left out, the others in the order of b
RECURSIVE IsSubsequence(_, _)
IsSubsequence(a, b) ==
  IF a = <<>> THEN TRUE
  ELSE IF b = <<>> THEN FALSE
  ELSE IF Head(a) = Head(b) THEN IsSubsequence(Tail(a), Tail(b))
  ELSE IsSubsequence(a, Tail(b))

\* C25: a call of filter_iqr leaves the caller's table as it was, and the
\* table it returns is the caller's with some rows left out, the others in
\* their order.  On an empty table the call returns, an empty table, with 0
\* rows removed and 0 percent; on any other the percentage is that of the
\* rows removed in the rows of the input.
C25_InputKeptOrderKeptEmptyTableSafe ==
  /\ iqr_pc \in {"idle", "returned"}
  /\ iqr_pc = "returned" =>
       /\ iqr_result.kind = "returned"
       /\ iqr_df = iqr_before
       /\ IsSubsequence(iqr_result.df_filtered, iqr_before)
       /\ iqr_result.rows_removed = Len(iqr_before) - Len(iqr_result.df_filtered)
       /\ iqr_before = <<>> =>
            /\ iqr_result.df_filtered = <<>>
            /\ iqr_result.rows_removed = 0
            /\ iqr_result.pct_removed = << 0, 1 >>
       /\ iqr_before # <<>> =>
            iqr_result.pct_removed = << 100 * iqr_result.rows_removed, Len(iqr_before) >>

\* C25, witness: the call on 100, 3, 1, 2, 5, 4 returned 3, 1, 2, 5, 4 and
\* the caller's table is what it was.
C25_Witness ==
  /\ iqr_pc = "returned"
  /\ iqr_before = << 100, 3, 1, 2, 5, 4 >>
  /\ iqr_df = iqr_before
  /\ iqr_result.df_filtered = << 3, 1, 2, 5, 4 >>
  /\ iqr_result.rows_removed = 1

\* the call on the empty table returned
EmptyTableReturns ==
  (iqr_pc = "returned" /\ iqr_before = <<>>) =>
     iqr_result.nan /\ iqr_result.rows_removed = 0 /\ iqr_result.df_filtered = <<>>

-----------------------------------------------------------------------------
(* The spreadsheet gateway: statements *)

\* C17: after sheets_updater has returned, the worksheet holds the table's
\* header row and its data rows and nothing else, whatever it held before.
C17_WriteReplacesWholeSheet ==
  su_pc = "returned" => su_sheet = HeaderAndRows(su_df)

\* What the code does: the header and the rows are in the sheet from its
\* first cell on, and every cell beyond them holds what it held before.
WriteOverlaysFromFirstCell ==
  su_pc = "returned" =>
     LET values == HeaderAndRows(su_df)
     IN /\ Len(su_sheet) >= Len(values) /\ Len(su_sheet) >= Len(su_before)
        /\ \A r \in 1..Len(values) : SubSeq(su_sheet[r], 1, Len(values[r])) = values[r]
        /\ \A r \in 1..Len(su_before) :
             \A c \in 1..Len(su_before[r]) :
                (r > Len(values) \/ c > Len(values[r])) => su_sheet[r][c] = su_before[r][c]

\* sheets_updater makes each of its requests once, and a request that fails
\* ends the call with the error
UpdaterOneAttempt ==
  /\ su_attempts.open <= 1 /\ su_attempts.update <= 1
  /\ su_result.error = "GatewayError" => su_pc = "raised" /\ su_sheet = su_before

\* C18: a call contacts the gateway at most once; when the gateway fails the
\* call ends there, with the gateway's error handed to the caller: no second
\* attempt, no join, no result.
C18_OneAttemptNoRetry ==
  /\ sheets_loader_calls <= 1
  /\ sheets_loader_failures <= sheets_loader_calls
  /\ sheets_loader_failures > 0 =>
        /\ pc = "raised"
        /\ result.kind = "raised" /\ result.error = "GatewayError"
        /\ merges = 0 /\ df_merged = <<>> /\ df_master_op = <<>>
  /\ pc \in {"merge", "policy", "returned"} =>
        sheets_loader_calls = 1 /\ sheets_loader_failures = 0 /\ df_master_op = sheet_op

\* C18, witness: the gateway failed on a call that had rows to resolve and a
\* lookup to resolve them with, and the call raised the gateway's error.
C18_Witness ==
  /\ pc = "raised" /\ result.error = "GatewayError"
  /\ sheets_loader_calls = 1 /\ sheets_loader_failures = 1
  /\ Len(df) > 0 /\ ResolvableInputs # {}

-----------------------------------------------------------------------------
(* mask_numeric_value: statements *)

\* the string without its leading and trailing blanks
Trimmed(v) ==
  LET inked == {i \in 1..Len(v) : v[i] # " "}
  IN IF inked = {} THEN <<>>
     ELSE SubSeq(v, CHOOSE i \in inked : \A j \in inked : i <= j,
                    CHOOSE i \in inked : \A j \in inked : j <= i)

\* with the preserved symbols taken out the string reads as a zero: zeros,
\* or zeros, an exponent mark and digits
NumericZero(v) ==
  LET n == SelectSeq(v, LAMBDA c : c \notin {",", ".", "%", " ", "+", "-"})
  IN \E k \in 1..Len(n) :
        /\ \A i \in 1..k : n[i] = "0"
        /\ \/ k = Len(n)
           \/ /\ k + 2 <= Len(n)
              /\ n[k + 1] \in {"e", "E"}
              /\ \A i \in (k + 2)..Len(n) : IsDigit(n[i])

\* C19: for a value that is not None, with masking on, the result has the
\* length of the stripped string, every character that is no digit where it
\* was and the mask character in place of every digit; but a value that reads
\* as zero once the preserved symbols are taken out comes back unmasked.  With
\* masking off the stripped string comes back as it is.
C19_MaskPreservesStructure ==
  (mask_pc = "returned" /\ mask_value # NoneValue) =>
     LET s == Trimmed(mask_value)
         r == mask_result.masked
     IN IF ~mask_hide \/ NumericZero(s) THEN r = s
        ELSE /\ Len(r) = Len(s)
             /\ \A i \in 1..Len(s) :
                  r[i] = IF IsDigit(s[i]) THEN mask_result.mask_char ELSE s[i]

\* C19, witness: " 5.0" with masking on came back as "*.*".
C19_Witness ==
  /\ mask_pc = "returned" /\ mask_hide
  /\ mask_value = << " ", "5", ".", "0" >>
  /\ mask_result.masked = << "*", ".", "*" >>

\* A zero keeps its digits: "-0.0" with masking on came back as "-0.0".
ZeroIsNotMasked ==
  (mask_pc = "returned" /\ mask_hide /\ mask_value = << "-", "0", ".", "0" >>) =>
     mask_result.masked = mask_value

-----------------------------------------------------------------------------
(* DataTracker: statements *)

\* C20: get_final_rows returns the count recorded by the latest track call,
\* and 0 when track has not been called.
C20_FinalRowsIsLatestCount ==
  dt_last.op = "get_final_rows" =>
     dt_last.returned = IF dt_track_calls = 0 THEN Some(0) ELSE dt_latest

\* C20, witness: after three track calls with three different counts
\* get_final_rows returned the third.
C20_Witness ==
  /\ dt_last.op = "get_final_rows" /\ dt_track_calls = 3
  /\ dt_rows[1] # dt_rows[2] /\ dt_rows[2] # dt_rows[3] /\ dt_rows[1] # dt_rows[3]
  /\ dt_last.returned = Some(dt_rows[3])

\* C24: steps, rows and timestamps each hold one entry per track call made,
\* in the order of the calls; start_rows is None before the first call and
\* from then on the count of the table of the first call, whatever the later
\* calls are given.
C24_ListsGrowTogetherStartRowsFixed ==
  /\ Len(dt_steps) = dt_track_calls
  /\ Len(dt_rows) = dt_track_calls
  /\ Len(dt_timestamps) = dt_track_calls
  /\ dt_track_calls = 0 => dt_start_rows = PyNone
  /\ dt_track_calls > 0 => dt_start_rows = dt_first /\ dt_first = Some(dt_rows[1])

\* C24, witness: three track calls, the first on an empty table, the later
\* ones on tables with rows; start_rows is 0.
C24_Witness ==
  /\ dt_track_calls = 3 /\ Len(dt_steps) = 3 /\ Len(dt_rows) = 3 /\ Len(dt_timestamps) = 3
  /\ dt_rows[1] = 0 /\ dt_rows[2] = 2 /\ dt_rows[3] = 1
  /\ dt_start_rows = Some(0)
  /\ dt_last.op = "track"

====
